---- MODULE Spec2Model ----
(***************************************************************************)
(* A state-machine model of bio-mcp-fastqc: the basic server               *)
(* (src/src/server.py), the enhanced server (src/src/server_enhanced.py)   *)
(* and the queue-backed server (src/src/server_with_queue.py).             *)
(*                                                                         *)
(* Every text the servers return is a sequence of string tokens: the       *)
(* literal pieces of the f-strings of the source and, for each formatted   *)
(* value, the tokens that value formats to (an integer formats to its      *)
(* decimal digits, one token per digit).                                   *)
(***************************************************************************)
EXTENDS Integers, Sequences, FiniteSets, TLC

(***************************************************************************)
(* Bounds of the model.                                                    *)
(***************************************************************************)
\* number of tool calls a behaviour makes (each call id is used once)
MaxCalls == 2
\* settings.timeout ranges over 1..MaxTimeout (seconds)
MaxTimeout == 2
\* settings.max_file_size ranges over 1..MaxSizeLimit (bytes)
MaxSizeLimit == 2
\* names tempfile can give a temporary directory
MaxTmpNames == 2

CallIds == 1..MaxCalls
TmpNames == 1..MaxTmpNames

(***************************************************************************)
(* Text.                                                                   *)
(***************************************************************************)
Digits == <<"0", "1", "2", "3", "4", "5", "6", "7", "8", "9">>

IsDigit(tok) == \E i \in 1..10 : Digits[i] = tok

\* str(n) of a natural number: its decimal digits
RECURSIVE IntStr(_)
IntStr(n) ==
    IF n < 10 THEN <<Digits[n + 1]>> ELSE IntStr(n \div 10) \o <<Digits[(n % 10) + 1]>>

\* sub occurs in text as a contiguous run of tokens
Contains(text, sub) ==
    \E i \in 1..(Len(text) - Len(sub) + 1) : SubSeq(text, i, i + Len(sub) - 1) = sub

\* the number n occurs in text as a whole number (no digit before or after it)
NamesNumber(text, n) ==
    LET d == IntStr(n) IN
    \E i \in 1..(Len(text) - Len(d) + 1) :
        /\ SubSeq(text, i, i + Len(d) - 1) = d
        /\ (i > 1 => ~IsDigit(text[i - 1]))
        /\ (i + Len(d) <= Len(text) => ~IsDigit(text[i + Len(d)]))

\* the number n occurs in text as a whole number directly followed by token next
NumberThen(text, n, next) ==
    LET d == IntStr(n) IN
    \E i \in 1..(Len(text) - Len(d)) :
        /\ SubSeq(text, i, i + Len(d) - 1) = d
        /\ (i > 1 => ~IsDigit(text[i - 1]))
        /\ text[i + Len(d)] = next

(***************************************************************************)
(* Arguments: a dict is a function from its keys to their values.          *)
(***************************************************************************)
NoArgs == [k \in {} |-> ""]

Has(d, k) == k \in DOMAIN d

\* dict.get(k, default)
Get(d, k, default) == IF Has(d, k) THEN d[k] ELSE default

\* the dict d without the key k (dict.pop's effect on the dict)
Without(d, k) == [x \in (DOMAIN d) \ {k} |-> d[x]]

(***************************************************************************)
(* Results of an operation.                                                *)
(*   kind "text"   a list holding one TextContent                          *)
(*   kind "error"  a list holding one ErrorContent                         *)
(*   kind "null"   the handler fell off its end and returned None          *)
(*   kind "raised" an exception left the handler                           *)
(*   kind "none"   the operation has not returned yet                      *)
(***************************************************************************)
TextContent(text) == [kind |-> "text", text |-> text]
ErrorContent(text) == [kind |-> "error", text |-> text]
NoneResult == [kind |-> "null", text |-> <<>>]
Raised(text) == [kind |-> "raised", text |-> text]
Pending == [kind |-> "none", text |-> <<>>]

\* f"Error: {str(e)}" for an exception whose str() is msg
CatchAll(msg) == ErrorContent(<<"Error: ">> \o msg)

\* str(KeyError(k)) is repr(k)
KeyErrorStr(k) == <<"'", k, "'">>

\* str(asyncio.TimeoutError()) is the empty string
TimeoutErrorStr == <<>>

\* Path(tmpdir): tempfile names the directory
TmpPath(d) == <<"/tmp/tmp">> \o IntStr(d)

(***************************************************************************)
(* Lines of text files: a line is a sequence of tokens, "\t" being the tab. *)
(* A line that begins with one of the prefixes the code tests ('PASS',     *)
(* 'WARN', 'FAIL', '#', '>>Basic Statistics', '>>END_MODULE') has that     *)
(* prefix as its first token.                                              *)
(***************************************************************************)
\* line.startswith(prefix)
StartsWith(line, prefix) == Len(line) >= 1 /\ line[1] = prefix

\* '\t' in line
HasTab(line) == \E i \in 1..Len(line) : line[i] = "\t"

\* line.split('\t'): the fields between the tabs, each a sequence of tokens
RECURSIVE SplitTab(_)
SplitTab(line) ==
    IF ~HasTab(line) THEN <<line>>
    ELSE LET i == CHOOSE j \in 1..Len(line) :
                      line[j] = "\t" /\ \A k \in 1..(j - 1) : line[k] # "\t"
         IN <<SubSeq(line, 1, i - 1)>> \o SplitTab(SubSeq(line, i + 1, Len(line)))

\* sum(1 for line in lines if line.startswith(prefix))
RECURSIVE CountPrefix(_, _)
CountPrefix(lines, prefix) ==
    IF lines = <<>> THEN 0
    ELSE (IF StartsWith(Head(lines), prefix) THEN 1 ELSE 0) + CountPrefix(Tail(lines), prefix)

\* the concatenation of a sequence of token sequences
RECURSIVE Flatten(_)
Flatten(ss) == IF ss = <<>> THEN <<>> ELSE Head(ss) \o Flatten(Tail(ss))

(***************************************************************************)
(* Paths: a path is a sequence of tokens, "/" separating the directory from *)
(* the file name; a suffix such as ".fastq" or ".gz" is one token.         *)
(***************************************************************************)
SuffixToks == {".fastq", ".fq", ".gz", ".txt", ".bam"}

\* Path.name: the tokens after the last "/"
RECURSIVE NameOf(_)
NameOf(path) ==
    IF \E i \in 1..Len(path) : path[i] = "/" THEN NameOf(Tail(path)) ELSE path

\* a join that loses the directory and keeps the name alone
JoinDroppingDir(dir, name) == name

\* directory / name
Join(dir, name) == dir \o <<"/">> \o name

\* PurePath.stem of a file name: the name without its last suffix
StemOfName(name) ==
    IF Len(name) >= 2 /\ name[Len(name)] \in SuffixToks
    THEN SubSeq(name, 1, Len(name) - 1)
    ELSE name

\* str.replace(tok, ''): every occurrence of the token removed
RECURSIVE RemoveTok(_, _)
RemoveTok(name, tok) ==
    IF name = <<>> THEN <<>>
    ELSE (IF Head(name) = tok THEN <<>> ELSE <<Head(name)>>) \o RemoveTok(Tail(name), tok)

\* fnmatch of a file name against a glob pattern, "*" matching any run of tokens
RECURSIVE GlobMatch(_, _)
GlobMatch(pattern, name) ==
    IF pattern = <<>> THEN name = <<>>
    ELSE IF Head(pattern) = "*"
         THEN \/ GlobMatch(Tail(pattern), name)
              \/ (name # <<>> /\ GlobMatch(pattern, Tail(name)))
         ELSE name # <<>> /\ Head(name) = Head(pattern)
              /\ GlobMatch(Tail(pattern), Tail(name))

\* the sequences over S of length at most n
SeqsUpTo(S, n) == UNION {[1..k -> S] : k \in 0..n}

\* the orders in which a set can be listed
Orders(S) == {f \in [1..Cardinality(S) -> S] : \A i, j \in DOMAIN f : i # j => f[i] # f[j]}

\* str.strip(): leading and trailing whitespace (tabs and blanks) removed
RECURSIVE Strip(_)
Strip(line) ==
    IF line = <<>> THEN <<>>
    ELSE IF Head(line) \in {"\t", " "} THEN Strip(Tail(line))
    ELSE IF line[Len(line)] \in {"\t", " "} THEN Strip(SubSeq(line, 1, Len(line) - 1))
    ELSE line

(***************************************************************************)
(* What the external tools leave on disk (FastQC, MultiQC are outside the  *)
(* repository: the model draws their output from these sets).              *)
(***************************************************************************)
\* longest summary.txt, in lines
MaxSummaryLines == 2

PassLine == <<"PASS", "\t", "Basic Statistics">>
WarnLine == <<"WARN", "\t", "Per base sequence quality">>
FailLine == <<"FAIL", "\t", "Adapter Content">>
NoteLine == <<"note">>
LineKinds == {PassLine, WarnLine, FailLine, NoteLine}

NoFile == [exists |-> FALSE, lines |-> <<>>]
FileOf(lines) == [exists |-> TRUE, lines |-> lines]

\* the summary.txt files a run may leave; rich selects the full set
SummaryFiles(rich) ==
    IF rich THEN {NoFile} \cup {FileOf(l) : l \in SeqsUpTo(LineKinds, MaxSummaryLines)}
    ELSE {FileOf(<<PassLine, WarnLine>>)}

DataLines ==
    << <<">>Basic Statistics", "\t", "pass">>,
       <<"#", "Measure", "\t", "Value">>,
       <<"Filename", "\t", "a.fastq">>,
       <<"Total Sequences">>,
       <<">>END_MODULE">>,
       <<"Quality", "\t", "30">> >>

DataFiles(rich) == IF rich THEN {NoFile, FileOf(DataLines)} ELSE {FileOf(DataLines)}

\* the name FastQC gives the extracted directory of an input file
FastqcDirName(name) ==
    LET bare == SelectSeq(name, LAMBDA t : t \notin SuffixToks) IN bare \o <<"_fastqc">>

FastqcPath == <<"fastqc">>
MultiqcPath == <<"multiqc">>
Rule50 == "=================================================="
Rule40 == "========================================"
GlyphPass == "(glyph pass)"
GlyphWarn == "(glyph warn)"
GlyphFail == "(glyph fail)"
GlyphNone == "(glyph none)"

StderrTexts == {<<"Failed to process file">>}
SpawnErrorStr == <<"[Errno 2] No such file or directory">>

VARIABLES
    settings,   \* ServerSettings: max_file_size, timeout, execution_mode, preferred_modes
    calls,      \* per call: the handler's position and its locals
    procs,      \* per call: the subprocess the handler spawned
    dirs,       \* the temporary directories that exist
    fastqc_info,  \* the enhanced server's cached ToolInfo for fastqc (None at first)
    multiqc_info, \* the enhanced server's cached ToolInfo for multiqc (None at first)
    detect_runs,  \* history: how many times _detect_tool has run for each tool
    detect_given, \* history: the preferred_modes _detect_tool handed the detector, per tool
    queue       \* the jobs the remote queue service holds, in submission order

vars == <<settings, calls, procs, dirs, fastqc_info, multiqc_info, detect_runs,
          detect_given, queue>>
cache == <<fastqc_info, multiqc_info, detect_runs, detect_given>>

\* the value of fastqc_info and multiqc_info before detection (None)
NoInfo == [mode |-> "unset", path |-> <<>>, module_name |-> <<>>, container_image |-> <<>>]

\* what the queue layer raised to the handler of a call, if it raised
NotRaised == [raised |-> FALSE, text |-> <<>>]
QueueRaised(text) == [raised |-> TRUE, text |-> text]

IdleCall ==
    [pc |-> "idle", server |-> "none", name |-> <<>>, args |-> NoArgs,
     in_exists |-> FALSE, in_size |-> 0, listing |-> {}, files |-> <<>>,
     tmpdir |-> 0, staged |-> {},
     elapsed |-> 0, rows |-> <<>>, stats |-> NoFile, qerr |-> NotRaised,
     result |-> Pending]

NoProc ==
    [state |-> "none", rc |-> 0, cmd |-> <<>>, cwd |-> <<>>, shell |-> FALSE,
     stderr |-> <<>>]

\* the values of the execution_mode setting the model starts servers with:
\* "none" is the default None
ExecutionModeSettings == {"none", "native", "LMOD", "docker", "bogus"}

\* the default of the preferred_modes setting, a comma-separated string
DefaultPreferredSetting ==
    <<"native", ",", "module", ",", "lmod", ",", "singularity", ",", "docker">>

\* the values of the preferred_modes setting the model starts servers with:
\* every string of up to MaxSettingToks pieces, a piece being a mode name in
\* lower or upper case, a word that names no mode, a comma or a blank
MaxSettingToks == 4
SettingToks == {"native", "LMOD", "bogus", ",", " "}
PreferredSettings == SeqsUpTo(SettingToks, MaxSettingToks)

\* preferred_modes=None and preferred_modes=[...] as the detector receives them
NotGiven == [given |-> FALSE, modes |-> <<>>]
Given(modes) == [given |-> TRUE, modes |-> modes]

\* a server constructed with an execution_mode setting drawn from modes and
\* a preferred_modes setting drawn from preferred
InitWith(modes, preferred) ==
    /\ settings \in [max_file_size : 1..MaxSizeLimit, timeout : 1..MaxTimeout,
                     execution_mode : modes, preferred_modes : preferred]
    /\ calls = [c \in CallIds |-> IdleCall]
    /\ procs = [c \in CallIds |-> NoProc]
    /\ dirs = {}
    /\ fastqc_info = NoInfo
    /\ multiqc_info = NoInfo
    /\ detect_runs = [t \in {"fastqc", "multiqc"} |-> 0]
    /\ detect_given = [t \in {"fastqc", "multiqc"} |-> NotGiven]
    /\ queue = <<>>

\* the servers with the default settings but for the two limits
Init == InitWith({"none"}, {DefaultPreferredSetting})

\* the servers with every execution_mode setting
InitModes == InitWith(ExecutionModeSettings, {DefaultPreferredSetting})

\* the servers with every preferred_modes setting
InitPreferred == InitWith({"none"}, PreferredSettings)

(***************************************************************************)
(* Steps shared by the handlers.                                           *)
(***************************************************************************)
\* the handler of call c returns res before it made a temporary directory
ReturnEarly(c, call, res) ==
    /\ calls' = [calls EXCEPT ![c] = [call EXCEPT !.pc = "done", !.result = res]]
    /\ UNCHANGED <<settings, queue, procs, dirs, cache>>

\* a cleanup that empties the whole temporary area
CleanupEverything(ds, d) == {}

\* a handler that makes its directory with mkdtemp and never removes it
CleanupForgotten(ds, d) == ds

\* tempfile.TemporaryDirectory.__exit__: the directory and its contents are removed
Cleanup(ds, d) == ds \ {d}

\* create_subprocess_exec raised inside the with block of directory d: the
\* block is left (the directory removed) and the catch-all returns the error
SpawnFailed(c, call, d) ==
    /\ calls' = [calls EXCEPT ![c] =
           [call EXCEPT !.pc = "done", !.tmpdir = d, !.result = CatchAll(SpawnErrorStr)]]
    /\ dirs' = Cleanup(dirs \cup {d}, d)
    /\ UNCHANGED <<settings, queue, procs, cache>>

\* the subprocess runs cmd and the handler waits for it in wait_for
Spawned(c, call, d, cmd, cwd, shell) ==
    /\ calls' = [calls EXCEPT ![c] = [call EXCEPT !.pc = "waiting", !.tmpdir = d]]
    /\ procs' = [procs EXCEPT ![c] = [state |-> "running", rc |-> 0, cmd |-> cmd,
                                      cwd |-> cwd, shell |-> shell, stderr |-> <<>>]]
    /\ dirs' = dirs \cup {d}
    /\ UNCHANGED <<settings, queue>>

\* create_subprocess_exec of the basic server: no cwd is given
BasicSpawned(c, call, d, cmd) == Spawned(c, call, d, cmd, <<>>, FALSE) /\ UNCHANGED cache

\* the handler of call c leaves its with block and returns res
ReturnFromWith(c, res) ==
    /\ calls' = [calls EXCEPT ![c].pc = "done", ![c].result = res]
    /\ dirs' = Cleanup(dirs, calls[c].tmpdir)
    /\ UNCHANGED <<settings, queue, cache>>

(***************************************************************************)
(* The basic server (src/src/server.py).                                   *)
(***************************************************************************)
InputFile == <<"/data", "/", "a", ".fastq">>
InputDir == <<"/data/run1">>
InputNames == {<<"s1", ".fastq">>, <<"s2", ".fastq", ".gz">>, <<"notes", ".txt">>}
DefaultPattern == <<"*", ".fastq", "*">>

\* the argument dicts the model calls the operations with; rich selects the
\* full set
SingleArgs(rich) ==
    {NoArgs, [input_file |-> InputFile]}
    \cup (IF rich
          THEN {[input_file |-> InputFile, threads |-> 2,
                 adapters |-> <<"/data", "/", "ad", ".txt">>]}
          ELSE {})

BatchArgs(rich) ==
    {NoArgs, [input_dir |-> InputDir]}
    \cup (IF rich
          THEN {[input_dir |-> InputDir, file_pattern |-> <<"*", ".bam">>],
                [input_dir |-> InputDir, file_pattern |-> <<"*", ".gz">>, threads |-> 2]}
          ELSE {})

MultiqcArgs(rich) ==
    {NoArgs, [input_dir |-> InputDir]}
    \cup (IF rich
          THEN {[input_dir |-> InputDir, title |-> <<"Run 1">>, template |-> <<"simple">>]}
          ELSE {})

\* the sizes the model gives the input file
FileSizes(rich) == IF rich THEN 0..(MaxSizeLimit + 1) ELSE {1, MaxSizeLimit + 1}

\* the directory listings the model gives input_dir; rich selects the full set
DirListings(rich) == IF rich THEN SUBSET InputNames ELSE {{}, InputNames}

\* the command line of _run_fastqc_single
SingleCmd(args, output_dir) ==
    <<FastqcPath, <<"--outdir">>, output_dir, <<"--threads">>,
      IntStr(Get(args, "threads", 1)), <<"--extract">> >>
    \o (IF Has(args, "contaminants") THEN << <<"--contaminants">>, args["contaminants"] >> ELSE <<>>)
    \o (IF Has(args, "adapters") THEN << <<"--adapters">>, args["adapters"] >> ELSE <<>>)
    \o (IF Has(args, "limits") THEN << <<"--limits">>, args["limits"] >> ELSE <<>>)
    \o <<args["input_file"]>>

\* f"File too large. Maximum size: {self.settings.max_file_size} bytes"
TooLargeText(max_file_size) ==
    <<"File too large. Maximum size: ">> \o IntStr(max_file_size) \o <<" bytes">>

\* the size check written with >= instead of >
TooLargeAtLimit(size, max_file_size) == size >= max_file_size

\* input_path.stat().st_size > self.settings.max_file_size
TooLarge(size, max_file_size) == size > max_file_size

\* _run_fastqc_single up to its wait on the subprocess
FastqcSingleStart(c, rich) ==
    /\ calls[c].pc = "idle"
    /\ \E args \in SingleArgs(rich), exists \in BOOLEAN, size \in FileSizes(rich) \cup {0} :
         LET call == [IdleCall EXCEPT !.server = "basic", !.name = <<"fastqc_single">>,
                                      !.args = args,
                                      !.in_exists = exists /\ Has(args, "input_file"),
                                      !.in_size = size]
         IN
         /\ (~(exists /\ Has(args, "input_file")) => size = 0)
         /\ IF ~Has(args, "input_file")
            THEN ReturnEarly(c, call, CatchAll(KeyErrorStr("input_file")))
            ELSE IF ~exists
            THEN ReturnEarly(c, call,
                     ErrorContent(<<"Input file not found: ">> \o args["input_file"]))
            ELSE IF TooLarge(size, settings.max_file_size)
            THEN ReturnEarly(c, call, ErrorContent(TooLargeText(settings.max_file_size)))
            ELSE \E d \in TmpNames \ dirs, spawn_ok \in BOOLEAN :
                   IF spawn_ok
                   THEN BasicSpawned(c, call, d,
                                SingleCmd(args, Join(TmpPath(d), <<"fastqc_output">>)))
                   ELSE SpawnFailed(c, call, d)

(***************************************************************************)
(* The subprocess and the clock, while a handler waits in                  *)
(* asyncio.wait_for(process.communicate(), timeout=settings.timeout).      *)
(***************************************************************************)
\* one second passes for the wait of call c
Tick(c) ==
    /\ calls[c].pc = "waiting"
    /\ procs[c].state = "running"
    /\ calls[c].elapsed < settings.timeout
    /\ calls' = [calls EXCEPT ![c].elapsed = @ + 1]
    /\ UNCHANGED <<settings, queue, procs, dirs, cache>>

\* the subprocess of call c exits on its own: within the timeout while the
\* handler waits for it, at any time once nothing waits for it any more
ProcExit(c) ==
    /\ procs[c].state = "running"
    /\ \/ calls[c].pc = "waiting" /\ calls[c].elapsed < settings.timeout
       \/ calls[c].pc = "done"
    /\ \E rc \in {0, 1}, err \in StderrTexts :
         procs' = [procs EXCEPT ![c].state = "exited", ![c].rc = rc,
                                ![c].stderr = IF rc = 0 THEN <<>> ELSE err]
    /\ UNCHANGED <<settings, queue, calls, dirs, cache>>

\* a wait on the subprocess with no timeout
TimedOutNever(c) == FALSE

\* wait_for raised TimeoutError for call c
TimedOut(c) ==
    /\ calls[c].pc = "waiting"
    /\ procs[c].state = "running"
    /\ calls[c].elapsed = settings.timeout

\* communicate() returned for call c
Communicated(c) ==
    /\ calls[c].pc = "waiting"
    /\ procs[c].state = "exited"

\* a handler that forgets process.kill()
KillForgotten(proc) == proc

\* process.kill()
Kill(proc) == [proc EXCEPT !.state = "killed"]

\* f"{label} timed out after {self.settings.timeout} seconds"
TimeoutText(label, timeout) ==
    <<label, " timed out after ">> \o IntStr(timeout) \o <<" seconds">>

\* the except asyncio.TimeoutError branch of the basic server's handlers
BasicTimeout(c, name, label) ==
    /\ calls[c].server = "basic" /\ calls[c].name = name
    /\ TimedOut(c)
    /\ procs' = [procs EXCEPT ![c] = Kill(@)]
    /\ ReturnFromWith(c, ErrorContent(TimeoutText(label, settings.timeout)))

\* the process.returncode != 0 branch of the basic server's handlers
BasicFailed(c, name, label) ==
    /\ calls[c].server = "basic" /\ calls[c].name = name
    /\ Communicated(c) /\ procs[c].rc # 0
    /\ ReturnFromWith(c, ErrorContent(<<label, " failed: ">> \o procs[c].stderr))
    /\ UNCHANGED procs

(***************************************************************************)
(* _parse_fastqc_results                                                   *)
(***************************************************************************)
\* the first item of the listing whose name contains base, <<>> when none
RECURSIVE FindDir(_, _)
FindDir(items, base) ==
    IF items = <<>> THEN <<>>
    ELSE IF Contains(Head(items), base) THEN Head(items)
    ELSE FindDir(Tail(items), base)

StatusGlyphSingle(status) ==
    IF status = <<"PASS">> THEN GlyphPass
    ELSE IF status = <<"WARN">> THEN GlyphWarn
    ELSE GlyphFail

RECURSIVE SummaryRows(_)
SummaryRows(lines) ==
    IF lines = <<>> THEN <<>>
    ELSE LET parts == SplitTab(Strip(Head(lines))) IN
         (IF Len(parts) >= 2
          THEN <<"  ", StatusGlyphSingle(parts[1]), " ">> \o parts[2] \o <<": ">>
               \o parts[1] \o <<"\n">>
          ELSE <<>>)
         \o SummaryRows(Tail(lines))

RECURSIVE BasicStatRows(_, _)
BasicStatRows(lines, in_basic_stats) ==
    IF lines = <<>> THEN <<>>
    ELSE LET line == Head(lines) IN
         IF StartsWith(line, ">>Basic Statistics") THEN BasicStatRows(Tail(lines), TRUE)
         ELSE IF StartsWith(line, ">>END_MODULE") THEN BasicStatRows(Tail(lines), FALSE)
         ELSE IF in_basic_stats /\ HasTab(line) /\ ~StartsWith(line, "#")
         THEN LET parts == SplitTab(line) IN
              (IF Len(parts) >= 2
               THEN <<"  * ">> \o parts[1] \o <<": ">> \o parts[2] \o <<"\n">>
               ELSE <<>>)
              \o BasicStatRows(Tail(lines), in_basic_stats)
         ELSE BasicStatRows(Tail(lines), in_basic_stats)

ParseFastqcResults(output_dir, filename_base, items, summary, data) ==
    LET found == FindDir(items, filename_base)
        fastqc_dir == Join(output_dir, found)
    IN
    IF found = <<>> THEN <<"FastQC completed but results directory not found">>
    ELSE <<"FastQC Analysis Complete for ">> \o filename_base \o <<"\n", Rule50, "\n\n">>
         \o (IF summary.exists
             THEN <<"Module Status Summary:\n">> \o SummaryRows(summary.lines) \o <<"\n">>
             ELSE <<>>)
         \o (IF data.exists
             THEN <<"Basic Statistics:\n">> \o BasicStatRows(data.lines, FALSE)
             ELSE <<>>)
         \o <<"\nOutput Files:\n", "  * HTML Report: ">>
         \o Join(fastqc_dir, <<"fastqc_report.html">>) \o <<"\n", "  * Data File: ">>
         \o Join(fastqc_dir, <<"fastqc_data.txt">>) \o <<"\n", "  * Summary: ">>
         \o Join(fastqc_dir, <<"summary.txt">>) \o <<"\n">>

\* _run_fastqc_single after a run that exited 0
FastqcSingleDone(c, rich) ==
    /\ calls[c].server = "basic" /\ calls[c].name = <<"fastqc_single">>
    /\ Communicated(c) /\ procs[c].rc = 0
    /\ LET input_path == calls[c].args["input_file"]
           output_dir == Join(TmpPath(calls[c].tmpdir), <<"fastqc_output">>)
       IN \E items \in {<<>>, <<FastqcDirName(NameOf(input_path))>>},
             summary \in SummaryFiles(rich) \cup {NoFile},
             data \in DataFiles(rich) \cup {NoFile} :
            /\ (items = <<>> => summary = NoFile /\ data = NoFile)
            /\ ReturnFromWith(c, TextContent(
                   ParseFastqcResults(output_dir, StemOfName(NameOf(input_path)),
                                      items, summary, data)))
    /\ UNCHANGED procs

FastqcSingleTimeout(c) == BasicTimeout(c, <<"fastqc_single">>, "FastQC")
FastqcSingleFailed(c) == BasicFailed(c, <<"fastqc_single">>, "FastQC")

(***************************************************************************)
(* fastqc_batch                                                            *)
(***************************************************************************)
\* the command line of _run_fastqc_batch
BatchCmd(args, output_dir, files) ==
    <<FastqcPath, <<"--outdir">>, output_dir, <<"--threads">>,
      IntStr(Get(args, "threads", 4)), <<"--extract">> >> \o files

\* f"No files found matching pattern '{pattern}' in {input_dir}"
NoFilesText(pattern, input_dir) ==
    <<"No files found matching pattern '">> \o pattern \o <<"' in ">> \o input_dir

\* list(input_dir.glob(pattern)) over a directory holding the names of listing,
\* in the order the file system yields them
GlobResults(input_dir, pattern, listing) ==
    LET matched == {n \in listing : GlobMatch(pattern, n)} IN
    {[i \in DOMAIN o |-> Join(input_dir, o[i])] : o \in Orders(matched)}

\* a handler without the check for an empty match
NoMatchIgnored(files) == FALSE

\* if not files
NoMatch(files) == files = <<>>

\* _run_fastqc_batch up to its wait on the subprocess
FastqcBatchStart(c, rich) ==
    /\ calls[c].pc = "idle"
    /\ \E args \in BatchArgs(rich), exists \in BOOLEAN, listing \in DirListings(rich) :
         LET call == [IdleCall EXCEPT !.server = "basic", !.name = <<"fastqc_batch">>,
                                      !.args = args,
                                      !.in_exists = exists /\ Has(args, "input_dir"),
                                      !.listing = listing]
             pattern == Get(args, "file_pattern", DefaultPattern)
         IN
         /\ (~(exists /\ Has(args, "input_dir")) => listing = {})
         /\ IF ~Has(args, "input_dir")
            THEN ReturnEarly(c, call, CatchAll(KeyErrorStr("input_dir")))
            ELSE IF ~exists
            THEN ReturnEarly(c, call,
                     ErrorContent(<<"Input directory not found: ">> \o args["input_dir"]))
            ELSE \E files \in GlobResults(args["input_dir"], pattern, listing) :
                   IF NoMatch(files)
                   THEN ReturnEarly(c, call,
                            ErrorContent(NoFilesText(pattern, args["input_dir"])))
                   ELSE \E d \in TmpNames \ dirs, spawn_ok \in BOOLEAN :
                          IF spawn_ok
                          THEN BasicSpawned(c, [call EXCEPT !.files = files], d,
                                   BatchCmd(args, Join(TmpPath(d), <<"fastqc_batch_output">>),
                                            files))
                          ELSE SpawnFailed(c, [call EXCEPT !.files = files], d)

\* input_file.stem.replace('.fastq', '').replace('.fq', '')
BaseName(input_file) == RemoveTok(RemoveTok(StemOfName(NameOf(input_file)), ".fastq"), ".fq")

\* the glyph chosen by testing the warnings before the failures
BatchGlyphWarnFirst(pass_count, warn_count, fail_count) ==
    IF fail_count = 0 /\ warn_count = 0 THEN GlyphPass
    ELSE IF warn_count > 0 THEN GlyphWarn
    ELSE GlyphFail

\* the status glyph of one file of the batch summary
BatchGlyph(pass_count, warn_count, fail_count) ==
    IF fail_count = 0 /\ warn_count = 0 THEN GlyphPass
    ELSE IF fail_count = 0 THEN GlyphWarn
    ELSE GlyphFail

\* what the loop of _summarize_batch_results computes for one input file:
\* items is output_dir.iterdir(), sums gives each listed directory its summary.txt
BatchRow(input_file, items, sums) ==
    LET found == FindDir(items, BaseName(input_file))
        has == found # <<>> /\ sums[found].exists
        summary_lines == IF has THEN sums[found].lines ELSE <<>>
        pass_count == CountPrefix(summary_lines, "PASS")
        warn_count == CountPrefix(summary_lines, "WARN")
        fail_count == CountPrefix(summary_lines, "FAIL")
    IN [file |-> NameOf(input_file), has_results |-> has, lines |-> summary_lines,
        pass |-> pass_count, warn |-> warn_count, fail |-> fail_count,
        glyph |-> IF has THEN BatchGlyph(pass_count, warn_count, fail_count)
                  ELSE GlyphNone]

BatchRows(files, items, sums) == [i \in DOMAIN files |-> BatchRow(files[i], items, sums)]

\* a summary that keeps only the last file's count: total = count where the
\* code has total += count
TotalLastOnly(rows, field) ==
    IF rows = <<>> THEN 0 ELSE rows[Len(rows)][field]

\* total_pass += pass_count, and so on, over the rows
RECURSIVE Total(_, _)
Total(rows, field) ==
    IF rows = <<>> THEN 0 ELSE Head(rows)[field] + Total(Tail(rows), field)

BatchRowText(row) ==
    IF row.has_results
    THEN <<"  ", row.glyph, " ">> \o row.file \o <<": ">> \o IntStr(row.pass) \o <<"P/">>
         \o IntStr(row.warn) \o <<"W/">> \o IntStr(row.fail) \o <<"F\n">>
    ELSE <<"  ", GlyphNone, " ">> \o row.file \o <<": No results found\n">>

SummarizeBatchResults(output_dir, rows) ==
    <<"FastQC Batch Analysis Complete\n", Rule40, "\n\n", "Processed ">>
    \o IntStr(Len(rows)) \o <<" files:\n\n">>
    \o Flatten([i \in DOMAIN rows |-> BatchRowText(rows[i])])
    \o <<"\nOverall Summary:\n", "  * Total PASS: ">> \o IntStr(Total(rows, "pass"))
    \o <<"\n", "  * Total WARN: ">> \o IntStr(Total(rows, "warn"))
    \o <<"\n", "  * Total FAIL: ">> \o IntStr(Total(rows, "fail"))
    \o <<"\n\n", "Output directory: ">> \o output_dir
    \o <<"\n", "\nTip: Run multiqc_report on this directory to generate a combined report!\n">>

\* _run_fastqc_batch after a run that exited 0
FastqcBatchDone(c, rich) ==
    /\ calls[c].server = "basic" /\ calls[c].name = <<"fastqc_batch">>
    /\ Communicated(c) /\ procs[c].rc = 0
    /\ LET files == calls[c].files
           output_dir == Join(TmpPath(calls[c].tmpdir), <<"fastqc_batch_output">>)
           made == {FastqcDirName(NameOf(files[i])) : i \in DOMAIN files}
       IN \E present \in SUBSET made :
          \E items \in Orders(present), sums \in [present -> SummaryFiles(rich)] :
            LET rows == BatchRows(files, items, sums) IN
            /\ calls' = [calls EXCEPT ![c].pc = "done", ![c].rows = rows,
                   ![c].result = TextContent(SummarizeBatchResults(output_dir, rows))]
            /\ dirs' = Cleanup(dirs, calls[c].tmpdir)
    /\ UNCHANGED <<settings, queue, procs, cache>>

FastqcBatchTimeout(c) == BasicTimeout(c, <<"fastqc_batch">>, "FastQC batch processing")
FastqcBatchFailed(c) == BasicFailed(c, <<"fastqc_batch">>, "FastQC batch processing")

(***************************************************************************)
(* multiqc_report                                                          *)
(***************************************************************************)
\* stats[:1000]
ExcerptLen == 1000
\* how far past ExcerptLen the longest multiqc_general_stats.txt goes
MaxStatsExtra == 2

\* a text file of n characters, one token each
StatsContent(n) == [i \in 1..n |-> Digits[(i % 10) + 1]]

StatsFiles(rich) ==
    IF rich
    THEN {NoFile} \cup {FileOf(StatsContent(n)) :
             n \in {0, 1, ExcerptLen - 1} \cup ExcerptLen..(ExcerptLen + MaxStatsExtra)}
    ELSE {FileOf(StatsContent(1))}

\* the sizes of multiqc_report.html, -1 when the file is not there
ReportSizes(rich) == IF rich THEN {-1, 512, 20480} ELSE {512}

\* f"{n:,}": the decimal digits in groups of three
RECURSIVE IntStrComma(_)
IntStrComma(n) ==
    IF n < 1000 THEN IntStr(n)
    ELSE LET r == n % 1000 IN
         IntStrComma(n \div 1000) \o <<",">>
         \o (IF r < 10 THEN <<"0", "0">> ELSE IF r < 100 THEN <<"0">> ELSE <<>>) \o IntStr(r)

\* the command line of _run_multiqc
MultiqcCmd(args, output_dir) ==
    <<MultiqcPath, args["input_dir"], <<"--outdir">>, output_dir, <<"--template">>,
      Get(args, "template", <<"default">>)>>
    \o (IF Has(args, "title") THEN << <<"--title">>, args["title"] >> ELSE <<>>)
    \o (IF Has(args, "comment") THEN << <<"--comment">>, args["comment"] >> ELSE <<>>)

\* _run_multiqc up to its wait on the subprocess
MultiqcStart(c, rich) ==
    /\ calls[c].pc = "idle"
    /\ \E args \in MultiqcArgs(rich), exists \in BOOLEAN :
         LET call == [IdleCall EXCEPT !.server = "basic", !.name = <<"multiqc_report">>,
                                      !.args = args,
                                      !.in_exists = exists /\ Has(args, "input_dir")]
         IN
         /\ (~Has(args, "input_dir") => ~exists)
         /\ IF ~Has(args, "input_dir")
            THEN ReturnEarly(c, call, CatchAll(KeyErrorStr("input_dir")))
            ELSE IF ~exists
            THEN ReturnEarly(c, call,
                     ErrorContent(<<"Input directory not found: ">> \o args["input_dir"]))
            ELSE \E d \in TmpNames \ dirs, spawn_ok \in BOOLEAN :
                   IF spawn_ok
                   THEN BasicSpawned(c, call, d,
                                MultiqcCmd(args, Join(TmpPath(d), <<"multiqc_output">>)))
                   ELSE SpawnFailed(c, call, d)

\* f"\nGeneral Statistics:\n{stats[:1000]}..."
StatsExcerpt(stats) ==
    <<"\nGeneral Statistics:\n">>
    \o SubSeq(stats, 1, IF Len(stats) < ExcerptLen THEN Len(stats) ELSE ExcerptLen)
    \o <<"...">>

MultiqcResultText(output_dir, report_size, stats) ==
    LET report_html == Join(output_dir, <<"multiqc_report.html">>)
        data_dir == Join(output_dir, <<"multiqc_data">>)
    IN <<"MultiQC report generated successfully!\n\n", "Report: ">> \o report_html
       \o <<"\n", "Data directory: ">> \o data_dir \o <<"\n\n">>
       \o (IF report_size >= 0
           THEN <<"Report size: ">> \o IntStrComma(report_size) \o <<" bytes\n">>
           ELSE <<>>)
       \o (IF stats.exists THEN StatsExcerpt(stats.lines) ELSE <<>>)

\* _run_multiqc after a run that exited 0
MultiqcDone(c, rich) ==
    /\ calls[c].server = "basic" /\ calls[c].name = <<"multiqc_report">>
    /\ Communicated(c) /\ procs[c].rc = 0
    /\ \E report_size \in ReportSizes(rich), stats \in StatsFiles(rich) :
         /\ calls' = [calls EXCEPT ![c].pc = "done", ![c].stats = stats,
                ![c].result = TextContent(MultiqcResultText(
                    Join(TmpPath(calls[c].tmpdir), <<"multiqc_output">>),
                    report_size, stats))]
         /\ dirs' = Cleanup(dirs, calls[c].tmpdir)
    /\ UNCHANGED <<settings, queue, procs, cache>>

MultiqcTimeout(c) == BasicTimeout(c, <<"multiqc_report">>, "MultiQC")
MultiqcFailed(c) == BasicFailed(c, <<"multiqc_report">>, "MultiQC")

\* call_tool of the basic server for a name that has no handler
BasicUnknownTool(c) ==
    /\ calls[c].pc = "idle"
    /\ \E name \in {<<"fastqc">>, <<"get_job_status">>} :
         ReturnEarly(c, [IdleCall EXCEPT !.server = "basic", !.name = name],
                     ErrorContent(<<"Unknown tool: ">> \o name))

(***************************************************************************)
(* Tool detection (the tool_detection module the enhanced server imports). *)
(***************************************************************************)
DefaultPreferred == <<"native", "module", "lmod", "singularity", "docker">>
ContainerImage == <<"quay.io/biocontainers/fastqc:0.12.1">>

\* the sets of execution modes in which the host lets a tool be located
LocatedChoices(rich) ==
    IF rich THEN {{}, {"native"}, {"module", "docker"}, {"lmod"}, {"singularity"}, {"docker"}}
    ELSE {{}, {"native"}, {"lmod"}}

ToolInfoFor(mode, tool_name) ==
    [mode |-> mode,
     path |-> IF mode = "native" THEN <<"/usr/bin", "/", tool_name>> ELSE <<>>,
     module_name |-> IF mode \in {"module", "lmod"} THEN <<tool_name>> ELSE <<>>,
     container_image |-> IF mode \in {"singularity", "docker"} THEN ContainerImage ELSE <<>>]

\* the first mode of the preferred order in which the tool is located
RECURSIVE FirstLocated(_, _)
FirstLocated(preferred, located) ==
    IF preferred = <<>> THEN "unavailable"
    ELSE IF Head(preferred) \in located THEN Head(preferred)
    ELSE FirstLocated(Tail(preferred), located)

\* ToolDetector.detect_tool
DetectTool(tool_name, preferred_modes, force_mode, located) ==
    IF force_mode # "none"
    THEN ToolInfoFor(IF force_mode \in located THEN force_mode ELSE "unavailable", tool_name)
    ELSE ToolInfoFor(FirstLocated(IF preferred_modes.given THEN preferred_modes.modes
                                  ELSE DefaultPreferred, located), tool_name)

\* ToolDetector.get_execution_command
GetExecutionCommand(tool_info, tool_name, tool_args) ==
    IF tool_info.mode = "native" THEN <<tool_info.path>> \o tool_args
    ELSE IF tool_info.mode \in {"module", "lmod"}
    THEN << <<"module">>, <<"load">>, tool_info.module_name, <<"&&">>, <<tool_name>> >>
         \o tool_args
    ELSE IF tool_info.mode = "singularity"
    THEN << <<"singularity">>, <<"exec">>, tool_info.container_image, <<tool_name>> >>
         \o tool_args
    ELSE << <<"docker">>, <<"run">>, <<"--rm">>, tool_info.container_image, <<tool_name>> >>
         \o tool_args

(***************************************************************************)
(* The enhanced server (src/src/server_enhanced.py).                       *)
(***************************************************************************)
\* _detect_tool with the default settings: no execution_mode, the default
\* preferred_modes
\* the values of the ExecutionMode enumeration
ExecutionModes == {"native", "module", "lmod", "singularity", "docker", "unavailable"}

\* str.lower() on the mode names the model uses
Lower(s) == IF s = "LMOD" THEN "lmod" ELSE IF s = "NATIVE" THEN "native" ELSE s

\* force_mode of _detect_tool: None unless the execution_mode setting is set
\* and ExecutionMode(...) accepts its lower-cased value (a ValueError is
\* logged and leaves force_mode None)
ForceMode(execution_mode) ==
    IF execution_mode # "none" /\ Lower(execution_mode) \in ExecutionModes
    THEN Lower(execution_mode)
    ELSE "none"

\* str.split(","): the pieces between the commas, [""] for the empty string
RECURSIVE SplitComma(_)
SplitComma(s) ==
    IF \E i \in DOMAIN s : s[i] = ","
    THEN LET i == CHOOSE j \in DOMAIN s : s[j] = "," /\ \A k \in 1..(j - 1) : s[k] # ","
         IN <<SubSeq(s, 1, i - 1)>> \o SplitComma(SubSeq(s, i + 1, Len(s)))
    ELSE <<s>>

\* mode_str.strip().lower(): a string of several pieces or of none names no mode
ModeName(mode_str) ==
    LET stripped == Strip(mode_str) IN
    IF Len(stripped) = 1 THEN Lower(stripped[1]) ELSE ""

\* the loop of _detect_tool over the pieces of the preferred_modes setting:
\* ExecutionMode(...) appended, a ValueError logged and the piece skipped
RECURSIVE PreferredModes(_)
PreferredModes(mode_strs) ==
    IF mode_strs = <<>> THEN <<>>
    ELSE (IF ModeName(Head(mode_strs)) \in ExecutionModes
          THEN <<ModeName(Head(mode_strs))>> ELSE <<>>)
         \o PreferredModes(Tail(mode_strs))

\* a call that hands the detector the list as it is, empty or not
KeepEmpty(preferred_modes) == Given(preferred_modes)

\* preferred_modes or None
OrNone(preferred_modes) ==
    IF preferred_modes = <<>> THEN NotGiven ELSE Given(preferred_modes)

\* the preferred_modes argument _detect_tool builds from the setting
PreferredArg(setting) == OrNone(PreferredModes(SplitComma(setting)))

\* _detect_tool: preferred_modes from the preferred_modes setting, force_mode
\* from the execution_mode setting
DetectWithSettings(tool_name, located) ==
    DetectTool(tool_name, PreferredArg(settings.preferred_modes),
               ForceMode(settings.execution_mode), located)

\* a cache test that finds the cache always empty
DetectsAlways(cached) == TRUE

\* if self.fastqc_info is None / if self.multiqc_info is None
Detects(cached) == cached = NoInfo

\* a lookup that detects again and overwrites what is cached
GetInfoRedetect(cached, tool_name, located) == DetectWithSettings(tool_name, located)

\* _get_fastqc_info / _get_multiqc_info: the cached value, detected when None
GetInfo(cached, tool_name, located) ==
    IF Detects(cached) THEN DetectWithSettings(tool_name, located) ELSE cached

\* the count of detection runs after _get_fastqc_info / _get_multiqc_info
Counted(runs, cached, tool_name) ==
    IF Detects(cached) THEN [runs EXCEPT ![tool_name] = @ + 1] ELSE runs

\* the record of what each detection handed the detector as preferred_modes
Handed(given, cached, tool_name) ==
    IF Detects(cached)
    THEN [given EXCEPT ![tool_name] = PreferredArg(settings.preferred_modes)]
    ELSE given

\* a shell test that knows the module mode only
NeedsShellModuleOnly(tool_info) == tool_info.mode = "module"

\* module commands run through a shell
NeedsShell(tool_info) == tool_info.mode \in {"module", "lmod"}

\* f"{tool_name} is not available in any execution mode"
UnavailableStr(tool_name) == <<tool_name, " is not available in any execution mode">>

\* an availability test that lets every resolved mode through
UnavailableNeverRaised(tool_info) == FALSE

\* if tool_info.mode == ExecutionMode.UNAVAILABLE
Unavailable(tool_info) == tool_info.mode = "unavailable"

EnhFastqcArgs(rich) ==
    {NoArgs, [input_file |-> InputFile]}
    \cup (IF rich
          THEN {[input_file |-> InputFile, output_format |-> "html", quiet |-> TRUE,
                 threads |-> 2]}
          ELSE {})

EnhMultiqcArgs(rich) ==
    {NoArgs, [input_dir |-> InputDir]}
    \cup (IF rich THEN {[input_dir |-> InputDir, report_title |-> <<"Run 1">>]} ELSE {})

\* the tool arguments _run_fastqc builds
EnhFastqcToolArgs(args, tmpdir, temp_input) ==
    << <<"-o">>, tmpdir, <<"-t">>, IntStr(Get(args, "threads", 1)) >>
    \o (IF Get(args, "quiet", FALSE) THEN << <<"-q">> >> ELSE <<>>)
    \o (IF Get(args, "output_format", "both") = "html" THEN << <<"--nozip">> >>
        ELSE IF Get(args, "output_format", "both") = "zip" THEN << <<"--nohtml">> >>
        ELSE <<>>)
    \o <<temp_input>>

\* the tool arguments _run_multiqc builds
EnhMultiqcToolArgs(args, tmpdir) ==
    << <<"-o">>, tmpdir >>
    \o (IF Has(args, "report_title") THEN << <<"--title">>, args["report_title"] >> ELSE <<>>)
    \o (IF Has(args, "comment") THEN << <<"--comment">>, args["comment"] >> ELSE <<>>)
    \o <<args["input_dir"]>>

\* _execute_tool_command up to its wait on the subprocess, inside the with
\* block of directory d: the tool is resolved (and cached), an unavailable tool
\* raises RuntimeError, which leaves the with block and reaches the catch-all
ExecuteToolCommand(c, call, d, tool_name, tool_args, located, spawn_ok) ==
    LET cached == IF tool_name = "fastqc" THEN fastqc_info ELSE multiqc_info
        tool_info == GetInfo(cached, tool_name, located)
    IN
    /\ fastqc_info' = IF tool_name = "fastqc" THEN tool_info ELSE fastqc_info
    /\ multiqc_info' = IF tool_name = "fastqc" THEN multiqc_info ELSE tool_info
    /\ detect_runs' = Counted(detect_runs, cached, tool_name)
    /\ detect_given' = Handed(detect_given, cached, tool_name)
    /\ IF Unavailable(tool_info)
       THEN /\ calls' = [calls EXCEPT ![c] =
                   [call EXCEPT !.pc = "done", !.tmpdir = d,
                                !.result = CatchAll(UnavailableStr(tool_name))]]
            /\ dirs' = Cleanup(dirs \cup {d}, d)
            /\ UNCHANGED <<settings, queue, procs>>
       ELSE IF ~spawn_ok
       THEN /\ calls' = [calls EXCEPT ![c] =
                   [call EXCEPT !.pc = "done", !.tmpdir = d,
                                !.result = CatchAll(SpawnErrorStr)]]
            /\ dirs' = Cleanup(dirs \cup {d}, d)
            /\ UNCHANGED <<settings, queue, procs>>
       ELSE Spawned(c, call, d, GetExecutionCommand(tool_info, tool_name, tool_args),
                    TmpPath(d), NeedsShell(tool_info))

\* _run_fastqc up to its wait on the subprocess
EnhFastqcStart(c, rich) ==
    /\ calls[c].pc = "idle"
    /\ \E args \in EnhFastqcArgs(rich), exists \in BOOLEAN,
          size \in FileSizes(rich) \cup {0} :
         LET call == [IdleCall EXCEPT !.server = "enhanced", !.name = <<"fastqc">>,
                                      !.args = args,
                                      !.in_exists = exists /\ Has(args, "input_file"),
                                      !.in_size = size]
         IN
         /\ (~(exists /\ Has(args, "input_file")) => size = 0)
         /\ IF ~Has(args, "input_file")
            THEN ReturnEarly(c, call, CatchAll(KeyErrorStr("input_file")))
            ELSE IF ~exists
            THEN ReturnEarly(c, call,
                     ErrorContent(<<"Input file not found: ">> \o args["input_file"]))
            ELSE IF TooLarge(size, settings.max_file_size)
            THEN ReturnEarly(c, call, ErrorContent(TooLargeText(settings.max_file_size)))
            ELSE \E d \in TmpNames \ dirs, located \in LocatedChoices(rich), spawn_ok \in BOOLEAN :
                   LET temp_input == Join(TmpPath(d), NameOf(args["input_file"])) IN
                   ExecuteToolCommand(c, [call EXCEPT !.staged = {temp_input}], d, "fastqc",
                       EnhFastqcToolArgs(args, TmpPath(d), temp_input), located, spawn_ok)

\* _run_multiqc of the enhanced server up to its wait on the subprocess
EnhMultiqcStart(c, rich) ==
    /\ calls[c].pc = "idle"
    /\ \E args \in EnhMultiqcArgs(rich), exists \in BOOLEAN :
         LET call == [IdleCall EXCEPT !.server = "enhanced", !.name = <<"multiqc">>,
                                      !.args = args,
                                      !.in_exists = exists /\ Has(args, "input_dir")]
         IN
         /\ (~Has(args, "input_dir") => ~exists)
         /\ IF ~Has(args, "input_dir")
            THEN ReturnEarly(c, call, CatchAll(KeyErrorStr("input_dir")))
            ELSE IF ~exists
            THEN ReturnEarly(c, call,
                     ErrorContent(<<"Input directory not found: ">> \o args["input_dir"]))
            ELSE \E d \in TmpNames \ dirs, located \in LocatedChoices(rich), spawn_ok \in BOOLEAN :
                   ExecuteToolCommand(c, call, d, "multiqc",
                       EnhMultiqcToolArgs(args, TmpPath(d)), located, spawn_ok)

\* the files a tool run leaves in the temporary directory: name and size
OutputListings(rich) ==
    {<< [name |-> <<"a_fastqc", ".zip">>, size |-> 20480],
        [name |-> <<"a_fastqc", ".html">>, size |-> 512] >>}
    \cup (IF rich THEN {<<>>, << [name |-> <<"a_fastqc", ".html">>, size |-> 512] >>}
          ELSE {})

\* f"- {file.name} ({file.stat().st_size} bytes)\\n" for each output file
RECURSIVE OutputRows(_)
OutputRows(files) ==
    IF files = <<>> THEN <<>>
    ELSE <<"- ">> \o Head(files).name \o <<" (">> \o IntStr(Head(files).size)
         \o <<" bytes)\\n">> \o OutputRows(Tail(files))

EnhResultText(label, output_files) ==
    <<label, " completed successfully\\n", "Generated ">> \o IntStr(Len(output_files))
    \o <<" output files:\\n">> \o OutputRows(output_files)

EnhLabel(name) == IF name = <<"fastqc">> THEN "FastQC" ELSE "MultiQC"

\* _run_fastqc / _run_multiqc of the enhanced server after a run that exited 0
EnhDone(c, rich) ==
    /\ calls[c].server = "enhanced"
    /\ Communicated(c) /\ procs[c].rc = 0
    /\ \E output_files \in OutputListings(rich) :
         ReturnFromWith(c, TextContent(EnhResultText(EnhLabel(calls[c].name), output_files)))
    /\ UNCHANGED procs

\* the returncode != 0 branch of the enhanced server's handlers
EnhFailed(c) ==
    /\ calls[c].server = "enhanced"
    /\ Communicated(c) /\ procs[c].rc # 0
    /\ ReturnFromWith(c,
           ErrorContent(<<EnhLabel(calls[c].name), " failed: ">> \o procs[c].stderr))
    /\ UNCHANGED procs

\* what _execute_tool_command does to the subprocess when wait_for raises
\* TimeoutError: nothing, the exception leaves the function
EnhOnTimeout(proc) == proc

\* wait_for raised TimeoutError in _execute_tool_command: the exception leaves
\* the with block and reaches the catch-all of the handler
EnhTimeout(c) ==
    /\ calls[c].server = "enhanced"
    /\ TimedOut(c)
    /\ procs' = [procs EXCEPT ![c] = EnhOnTimeout(@)]
    /\ ReturnFromWith(c, CatchAll(TimeoutErrorStr))

\* json.dumps of one tool's entry of _get_tool_info
ToolInfoJson(tool_name, info) ==
    <<"\"", tool_name, "\": {", "\"execution_mode\": ", info.mode,
      "\"available\": ", IF info.mode # "unavailable" THEN "true" ELSE "false",
      "\"path\": ">> \o (IF info.path = <<>> THEN <<"null">> ELSE info.path)
    \o <<"\"module_name\": ">>
    \o (IF info.module_name = <<>> THEN <<"null">> ELSE info.module_name)
    \o <<"\"container_image\": ">>
    \o (IF info.container_image = <<>> THEN <<"null">> ELSE info.container_image)
    \o <<"}">>

\* _get_tool_info (the fastqc_info operation)
EnhToolInfo(c, rich) ==
    /\ calls[c].pc = "idle"
    /\ \E located_f \in LocatedChoices(rich), located_m \in LocatedChoices(rich) :
         LET fi == GetInfo(fastqc_info, "fastqc", located_f)
             mi == GetInfo(multiqc_info, "multiqc", located_m)
         IN
         /\ (~Detects(fastqc_info) => located_f = {})
         /\ (~Detects(multiqc_info) => located_m = {})
         /\ fastqc_info' = fi
         /\ multiqc_info' = mi
         /\ detect_runs' = Counted(Counted(detect_runs, fastqc_info, "fastqc"),
                                   multiqc_info, "multiqc")
         /\ detect_given' = Handed(Handed(detect_given, fastqc_info, "fastqc"),
                                   multiqc_info, "multiqc")
         /\ calls' = [calls EXCEPT ![c] =
                [IdleCall EXCEPT !.server = "enhanced", !.name = <<"fastqc_info">>,
                    !.pc = "done",
                    !.result = TextContent(<<"{">> \o ToolInfoJson("fastqc", fi)
                                   \o ToolInfoJson("multiqc", mi) \o <<"}">>)]]
    /\ UNCHANGED <<settings, queue, procs, dirs>>

\* call_tool of the enhanced server for a name that has no handler
EnhUnknownTool(c) ==
    /\ calls[c].pc = "idle"
    /\ \E name \in {<<"fastqc_single">>, <<"cancel_job">>} :
         ReturnEarly(c, [IdleCall EXCEPT !.server = "enhanced", !.name = name],
                     ErrorContent(<<"Unknown tool: ">> \o name))

(***************************************************************************)
(* The queue layer (the queue_integration module the queue-backed server   *)
(* inherits from) and the remote queue service behind it.                  *)
(***************************************************************************)
JobId(n) == <<"job-">> \o IntStr(n)

\* the position of job_id in the queue, 0 when the service does not know it
JobIndex(q, job_id) ==
    IF \E i \in 1..Len(q) : q[i].id = job_id
    THEN CHOOSE i \in 1..Len(q) : q[i].id = job_id
    ELSE 0

\* the errors the queue layer raises
NetworkErrorStr == <<"Cannot connect to queue service">>
NotFoundStr(job_id) == <<"Job not found: ">> \o job_id
NotCompletedStr(job_id) == <<"Job not completed: ">> \o job_id

\* submit_job: the job the service records
SubmitJob(q, job_type, parameters, priority, tags, by) ==
    [id |-> JobId(Len(q) + 1), job_type |-> job_type, parameters |-> parameters,
     priority |-> priority, tags |-> tags, status |-> "pending", payload |-> NoArgs,
     by |-> by]

\* format_job_status
FormatJobStatus(job) ==
    <<"Job ID: ">> \o job.id \o <<"\nType: ", job.job_type, "\nStatus: ", job.status>>

\* the result payloads a completed job may hold; rich selects the full set
ResultPayloads(rich) ==
    {[summary |-> << <<"total_pass", "10">>, <<"total_fail", "1">> >>,
      files_processed |-> <<"2">>, warnings |-> <<"3">>, failures |-> <<"1">>,
      result_url |-> <<"http://localhost:8000/results/1">>]}
    \cup (IF rich THEN {NoArgs, [files_processed |-> <<"2">>, warnings |-> <<"0">>]} ELSE {})

\* the remote service finishes a pending job
JobCompletes(rich) ==
    /\ \E i \in 1..Len(queue), payload \in ResultPayloads(rich) :
         /\ queue[i].status = "pending"
         /\ queue' = [queue EXCEPT ![i].status = "completed", ![i].payload = payload]
    /\ UNCHANGED <<settings, calls, procs, dirs, cache>>

(***************************************************************************)
(* The queue-backed server (src/src/server_with_queue.py).                 *)
(***************************************************************************)
\* the keys of async_tool_configs
AsyncToolConfigs == {<<"fastqc_single">>, <<"fastqc_batch">>, <<"multiqc_report">>}

\* async_tool_configs[base_name]["job_type"]
JobType(base_name) == base_name[1]

\* name.endswith("_async")
EndsWithAsync(name) == Len(name) >= 1 /\ name[Len(name)] = "_async"

\* name[:-6]
BaseNameOf(name) == SubSeq(name, 1, Len(name) - 1)

\* the branch call_tool of the queue-backed server takes for a name
QueueRoute(name) ==
    IF EndsWithAsync(name)
    THEN (IF BaseNameOf(name) \in AsyncToolConfigs THEN "submit" ELSE "fall_off")
    ELSE IF name = <<"get_job_status">> THEN "status"
    ELSE IF name = <<"get_job_result">> THEN "result"
    ELSE IF name = <<"list_my_jobs">> THEN "list"
    ELSE IF name = <<"cancel_job">> THEN "cancel"
    ELSE "delegate"

\* the operation names the model calls the queue-backed server with
QueueNames ==
    {b \o <<"_async">> : b \in AsyncToolConfigs}
    \cup {<<"bogus", "_async">>, <<"_async">>}
    \cup {<<"get_job_status">>, <<"get_job_result">>, <<"list_my_jobs">>, <<"cancel_job">>}
    \cup AsyncToolConfigs \cup {<<"bogus">>}

QueueCall(name, args) == [IdleCall EXCEPT !.server = "queue", !.name = name, !.args = args]

\* the handler of call c returns res; the queue is left as q
QueueReturn(c, call, res, q) ==
    /\ calls' = [calls EXCEPT ![c] = [call EXCEPT !.pc = "done", !.result = res]]
    /\ queue' = q
    /\ UNCHANGED <<settings, procs, dirs, cache>>

\* the arguments the model submits async jobs with
AsyncArgs(base_name) ==
    LET req == IF base_name = <<"fastqc_single">> THEN [input_file |-> InputFile]
               ELSE [input_dir |-> InputDir]
    IN {NoArgs, req,
        req @@ [priority |-> 9, tags |-> <<"urgent">>],
        req @@ [threads |-> 2, tags |-> <<"urgent", "batch7">>,
                notification_email |-> <<"user@example.org">>]}

\* priority = arguments.pop("priority", 5)
AsyncPriority(arguments) == Get(arguments, "priority", 5)

\* tags = arguments.pop("tags", [])
AsyncTags(arguments) == Get(arguments, "tags", <<>>)

\* the pops without the one of notification_email
AsyncParametersKeepEmail(arguments) == Without(Without(arguments, "priority"), "tags")

\* the arguments after the three pops: the parameters submit_job is given
AsyncParameters(arguments) ==
    Without(Without(Without(arguments, "priority"), "tags"), "notification_email")

SubmittedText(job) ==
    <<"FastQC job submitted successfully!\n\n">> \o FormatJobStatus(job)
    \o <<"\n\n", "Use 'get_job_status' with job ID to check progress.\n",
         "Large batch jobs may take 10-30 minutes depending on file size.">>

\* call_tool for an <op>_async name of a known operation: _handle_async_tool
QueueSubmit(c) ==
    /\ calls[c].pc = "idle"
    /\ \E name \in QueueNames :
         /\ QueueRoute(name) = "submit"
         /\ \E args \in AsyncArgs(BaseNameOf(name)), fails \in BOOLEAN :
              LET job == SubmitJob(queue, JobType(BaseNameOf(name)), AsyncParameters(args),
                                   AsyncPriority(args), AsyncTags(args), c)
              IN IF fails
                 THEN QueueReturn(c, [QueueCall(name, args) EXCEPT
                                         !.qerr = QueueRaised(NetworkErrorStr)],
                          ErrorContent(<<"Error submitting FastQC job: ">> \o NetworkErrorStr),
                          queue)
                 ELSE QueueReturn(c, QueueCall(name, args),
                          TextContent(SubmittedText(job)), Append(queue, job))

\* call_tool for a name ending in _async whose base is no known operation:
\* no branch returns, the function ends and returns None
QueueFallOff(c) ==
    /\ calls[c].pc = "idle"
    /\ \E name \in QueueNames :
         /\ QueueRoute(name) = "fall_off"
         /\ QueueReturn(c, QueueCall(name, NoArgs), NoneResult, queue)

\* the argument dicts the model calls the job-management operations with
JobArgs == {NoArgs} \cup {[job_id |-> JobId(n)] : n \in 1..MaxCalls}

\* arguments["job_id"] in call_tool, outside every try block
MissingJobId(c, name) ==
    QueueReturn(c, QueueCall(name, NoArgs), Raised(KeyErrorStr("job_id")), queue)

\* the error wrapped the way the tool handlers wrap theirs
JobErrorResultPrefixed(msg) == ErrorContent(<<"Error: ">> \o msg)

\* what the handlers return when the queue layer raised an error of text msg
JobErrorResult(msg) == ErrorContent(msg)

\* what the queue layer raises for a request about job_id, <<>> when it answers:
\* the service may be unreachable, and it does not know every job
QueueLayerError(q, job_id, unreachable) ==
    IF unreachable THEN NetworkErrorStr
    ELSE IF JobIndex(q, job_id) = 0 THEN NotFoundStr(job_id)
    ELSE <<>>

\* call_tool for get_job_status: _handle_job_status
QueueJobStatus(c) ==
    /\ calls[c].pc = "idle"
    /\ \E args \in JobArgs, unreachable \in BOOLEAN :
         LET name == <<"get_job_status">> IN
         IF ~Has(args, "job_id") THEN ~unreachable /\ MissingJobId(c, name)
         ELSE LET err == QueueLayerError(queue, args["job_id"], unreachable) IN
              IF err # <<>>
              THEN QueueReturn(c, [QueueCall(name, args) EXCEPT !.qerr = QueueRaised(err)],
                               JobErrorResult(err), queue)
              ELSE QueueReturn(c, QueueCall(name, args),
                       TextContent(FormatJobStatus(queue[JobIndex(queue, args["job_id"])])),
                       queue)

\* the text _handle_job_result builds from a result payload
JobResultText(job_id, result) ==
    <<"FastQC Job ">> \o job_id \o <<" Results\n", Rule50, "\n\n">>
    \o (IF Has(result, "summary")
        THEN <<"Quality Control Summary:\n">>
             \o Flatten([i \in DOMAIN result["summary"] |->
                    <<"  * ", result["summary"][i][1], ": ", result["summary"][i][2], "\n">>])
             \o <<"\n">>
        ELSE <<>>)
    \o (IF Has(result, "files_processed")
        THEN <<"Files processed: ">> \o result["files_processed"] \o <<"\n">> ELSE <<>>)
    \o (IF Has(result, "warnings")
        THEN <<"Quality warnings: ">> \o result["warnings"] \o <<"\n">> ELSE <<>>)
    \o (IF Has(result, "failures")
        THEN <<"Quality failures: ">> \o result["failures"] \o <<"\n">> ELSE <<>>)
    \o (IF Has(result, "result_url")
        THEN <<"\nFull results: ">> \o result["result_url"]
             \o <<"\n", "HTML reports and MultiQC data available for download.\n",
                  "Results available for 7 days.\n">>
        ELSE <<>>)

\* call_tool for get_job_result: _handle_job_result
QueueJobResult(c) ==
    /\ calls[c].pc = "idle"
    /\ \E args \in JobArgs, unreachable \in BOOLEAN :
         LET name == <<"get_job_result">> IN
         IF ~Has(args, "job_id") THEN ~unreachable /\ MissingJobId(c, name)
         ELSE LET job_id == args["job_id"]
                  i == JobIndex(queue, job_id)
                  e == QueueLayerError(queue, job_id, unreachable)
                  err == IF e = <<>> /\ queue[i].status # "completed"
                         THEN NotCompletedStr(job_id) ELSE e
              IN
              IF err # <<>>
              THEN QueueReturn(c, [QueueCall(name, args) EXCEPT !.qerr = QueueRaised(err)],
                               JobErrorResult(err), queue)
              ELSE QueueReturn(c, QueueCall(name, args),
                       TextContent(JobResultText(job_id, queue[i].payload)), queue)

\* call_tool for list_my_jobs: _handle_list_jobs
QueueListJobs(c) ==
    /\ calls[c].pc = "idle"
    /\ \E args \in {NoArgs, [status |-> "pending"]} :
         QueueReturn(c, QueueCall(<<"list_my_jobs">>, args),
             TextContent(<<"Job listing not yet implemented.\n",
                           "Use individual job IDs to check status.\n",
                           "Example: get_job_status with your job ID">>), queue)

\* f"FastQC job {job_id} cancelled successfully"
CancelledText(job_id) == <<"FastQC job ">> \o job_id \o <<" cancelled successfully">>

\* call_tool for cancel_job: _handle_cancel_job
QueueCancelJob(c) ==
    /\ calls[c].pc = "idle"
    /\ \E args \in JobArgs, unreachable \in BOOLEAN :
         LET name == <<"cancel_job">> IN
         IF ~Has(args, "job_id") THEN ~unreachable /\ MissingJobId(c, name)
         ELSE LET job_id == args["job_id"]
                  i == JobIndex(queue, job_id)
                  err == QueueLayerError(queue, job_id, unreachable)
              IN
              IF err # <<>>
              THEN QueueReturn(c, [QueueCall(name, args) EXCEPT !.qerr = QueueRaised(err)],
                               JobErrorResult(err), queue)
              ELSE QueueReturn(c, QueueCall(name, args), TextContent(CancelledText(job_id)),
                       [queue EXCEPT ![i].status =
                            IF @ = "pending" THEN "cancelled" ELSE @])

\* str(AttributeError) of super(FastQCServerWithQueue, self).server: server is
\* an attribute of the instance, which a super object does not look up
DelegateErrorStr == <<"'super' object has no attribute 'server'">>

\* call_tool for every other name: the delegation to the parent
QueueDelegate(c) ==
    /\ calls[c].pc = "idle"
    /\ \E name \in QueueNames :
         /\ QueueRoute(name) = "delegate"
         /\ \E args \in {NoArgs, [input_file |-> InputFile], [input_dir |-> InputDir]} :
              QueueReturn(c, QueueCall(name, args), Raised(DelegateErrorStr), queue)

\* the operations of the queue-backed server
QueueServerNext(C, rich) ==
    \/ \E c \in C :
        \/ QueueSubmit(c)
        \/ QueueFallOff(c)
        \/ QueueJobStatus(c)
        \/ QueueJobResult(c)
        \/ QueueListJobs(c)
        \/ QueueCancelJob(c)
        \/ QueueDelegate(c)
    \/ JobCompletes(rich)

\* the operations of the model; rich selects the full sets of tool output
Next(C, rich) ==
    \E c \in C :
        \/ FastqcSingleStart(c, rich)
        \/ FastqcSingleDone(c, rich)
        \/ FastqcSingleTimeout(c)
        \/ FastqcSingleFailed(c)
        \/ FastqcBatchStart(c, rich)
        \/ FastqcBatchDone(c, rich)
        \/ FastqcBatchTimeout(c)
        \/ FastqcBatchFailed(c)
        \/ MultiqcStart(c, rich)
        \/ MultiqcDone(c, rich)
        \/ MultiqcTimeout(c)
        \/ MultiqcFailed(c)
        \/ BasicUnknownTool(c)
        \/ EnhFastqcStart(c, rich)
        \/ EnhMultiqcStart(c, rich)
        \/ EnhDone(c, rich)
        \/ EnhFailed(c)
        \/ EnhTimeout(c)
        \/ EnhToolInfo(c, rich)
        \/ EnhUnknownTool(c)
        \/ Tick(c)
        \/ ProcExit(c)

\* every server, calls in flight together, the small sets of tool output
NextAll == Next(CallIds, FALSE) \/ QueueServerNext(CallIds, FALSE)
Spec == Init /\ [][NextAll]_vars

\* the basic and the enhanced server, one call, the full sets of tool output
NextOne == Next({1}, TRUE)
SpecOne == Init /\ [][NextOne]_vars

\* the steps in which the handler of call c runs on after its wait
Resume(c) ==
    \/ FastqcSingleDone(c, FALSE) \/ FastqcSingleTimeout(c) \/ FastqcSingleFailed(c)
    \/ FastqcBatchDone(c, FALSE) \/ FastqcBatchTimeout(c) \/ FastqcBatchFailed(c)
    \/ MultiqcDone(c, FALSE) \/ MultiqcTimeout(c) \/ MultiqcFailed(c)
    \/ EnhDone(c, FALSE) \/ EnhFailed(c) \/ EnhTimeout(c)

\* one call, the small sets of tool output, under a running clock and an
\* event loop that runs a handler whose wait is over; nothing makes a
\* subprocess exit
NextLive == Next({1}, FALSE)
SpecLive ==
    /\ Init /\ [][NextLive]_vars
    /\ \A c \in CallIds : WF_vars(Tick(c)) /\ WF_vars(Resume(c))

\* the queue-backed server and the remote queue
NextQueue == QueueServerNext(CallIds, TRUE)
SpecQueue == Init /\ [][NextQueue]_vars

\* the enhanced server under every execution_mode setting, calls in flight
\* together
NextEnhanced ==
    \E c \in CallIds :
        \/ EnhFastqcStart(c, FALSE)
        \/ EnhMultiqcStart(c, FALSE)
        \/ EnhDone(c, FALSE)
        \/ EnhFailed(c)
        \/ EnhTimeout(c)
        \/ EnhToolInfo(c, TRUE)
        \/ EnhUnknownTool(c)
        \/ Tick(c)
        \/ ProcExit(c)
SpecEnhanced == InitModes /\ [][NextEnhanced]_vars

\* the enhanced server alone, one call, under every preferred_modes setting
NextPreferred ==
    \E c \in {1} :
        \/ EnhFastqcStart(c, FALSE) \/ EnhMultiqcStart(c, FALSE)
        \/ EnhDone(c, FALSE) \/ EnhFailed(c) \/ EnhTimeout(c)
        \/ EnhToolInfo(c, TRUE) \/ EnhUnknownTool(c)
        \/ Tick(c) \/ ProcExit(c)
SpecPreferred == InitPreferred /\ [][NextPreferred]_vars

(***************************************************************************)
(* The claims.                                                             *)
(***************************************************************************)
IsBasic(c, name) == calls[c].server = "basic" /\ calls[c].name = name
IsEnhanced(c) == calls[c].server = "enhanced"
IsQueue(c) == calls[c].server = "queue"
BasicOps == {<<"fastqc_single">>, <<"fastqc_batch">>, <<"multiqc_report">>}

\* the operation of call c has returned and its subprocess had not finished
\* within settings.timeout seconds
TimedOutCall(c) ==
    /\ calls[c].pc = "done"
    /\ procs[c].state # "none"
    /\ calls[c].elapsed = settings.timeout

\* C1: in the basic server, an operation whose subprocess has not finished
\* within settings.timeout seconds returns error content whose text holds the
\* configured timeout followed by ' seconds', and the subprocess has been
\* killed when the operation returns.
C1_BasicTimeoutKillsAndNamesTimeout ==
    \A c \in CallIds :
        (calls[c].server = "basic" /\ TimedOutCall(c)) =>
            /\ calls[c].name \in BasicOps
            /\ calls[c].result.kind = "error"
            /\ NumberThen(calls[c].result.text, settings.timeout, " seconds")
            /\ procs[c].state = "killed"

C1_Witness ==
    \E c \in CallIds :
        /\ IsBasic(c, <<"fastqc_batch">>) /\ TimedOutCall(c)
        /\ procs[c].state = "killed" /\ settings.timeout = MaxTimeout

\* C2: in the enhanced server, a fastqc or multiqc operation whose subprocess
\* has not finished within settings.timeout seconds has terminated the
\* subprocess and returns an error that names the timeout.
C2_EnhancedTimeoutKillsAndNamesTimeout ==
    \A c \in CallIds :
        (IsEnhanced(c) /\ TimedOutCall(c)) =>
            /\ calls[c].result.kind = "error"
            /\ NamesNumber(calls[c].result.text, settings.timeout)
            /\ procs[c].state = "killed"

\* C3: the temporary directory an operation of the basic or the enhanced
\* server created does not exist once the operation has returned, whatever
\* the way it returned.
C3_TempDirRemovedOnReturn ==
    \A c \in CallIds :
        (calls[c].pc = "done" /\ calls[c].tmpdir # 0) => calls[c].tmpdir \notin dirs

C3_Witness ==
    \E c \in CallIds :
        /\ IsEnhanced(c) /\ TimedOutCall(c)
        /\ calls[c].tmpdir # 0 /\ calls[c].tmpdir \notin dirs

\* C4: fastqc_single on an existing file larger than settings.max_file_size
\* returns error content naming max_file_size, spawns no subprocess and makes
\* no temporary directory; a file of exactly max_file_size is let through to
\* the run.
C4_OversizeRejectedBeforeAnyWork ==
    \A c \in CallIds :
        (IsBasic(c, <<"fastqc_single">>) /\ calls[c].in_exists) =>
            /\ calls[c].in_size > settings.max_file_size =>
                   /\ calls[c].pc = "done"
                   /\ calls[c].result.kind = "error"
                   /\ NamesNumber(calls[c].result.text, settings.max_file_size)
                   /\ procs[c].state = "none"
                   /\ calls[c].tmpdir = 0
                   /\ dirs = {}
            /\ calls[c].in_size = settings.max_file_size => calls[c].tmpdir # 0

C4_Witness ==
    \E c \in CallIds :
        /\ IsBasic(c, <<"fastqc_single">>) /\ calls[c].in_exists
        /\ calls[c].in_size = settings.max_file_size + 1
        /\ calls[c].pc = "done"

\* C5: fastqc_batch on an existing directory in which the pattern (default
\* '*.fastq*') matches no file returns error content naming the pattern and
\* the directory, and spawns no subprocess.
C5_EmptyMatchRejected ==
    \A c \in CallIds :
        LET pattern == Get(calls[c].args, "file_pattern", DefaultPattern) IN
        (/\ IsBasic(c, <<"fastqc_batch">>) /\ calls[c].in_exists
         /\ \A n \in calls[c].listing : ~GlobMatch(pattern, n)) =>
            /\ calls[c].pc = "done"
            /\ calls[c].result.kind = "error"
            /\ Contains(calls[c].result.text, pattern)
            /\ Contains(calls[c].result.text, calls[c].args["input_dir"])
            /\ procs[c].state = "none"
            /\ calls[c].tmpdir = 0

C5_Witness ==
    \E c \in CallIds :
        /\ IsBasic(c, <<"fastqc_batch">>) /\ calls[c].in_exists
        /\ calls[c].listing # {}
        /\ ~Has(calls[c].args, "file_pattern")
        /\ \A n \in calls[c].listing : ~GlobMatch(DefaultPattern, n)
        /\ calls[c].pc = "done"

\* the tokens of text after its first token marker
After(text, marker) ==
    LET i == CHOOSE j \in 1..Len(text) :
                 text[j] = marker /\ \A k \in 1..(j - 1) : text[k] # marker
    IN SubSeq(text, i + 1, Len(text))

\* C6: in a successful multiqc_report, the general-statistics excerpt of a
\* file shorter than 1,000 characters is the whole file with no truncation
\* marker, and the excerpt of a file longer than 1,000 characters is its first
\* 1,000 characters followed by the ellipsis.
C6_ExcerptRoundTrip ==
    \A c \in CallIds :
        (/\ IsBasic(c, <<"multiqc_report">>) /\ calls[c].pc = "done"
         /\ calls[c].result.kind = "text" /\ calls[c].stats.exists) =>
            LET content == calls[c].stats.lines
                excerpt == After(calls[c].result.text, "\nGeneral Statistics:\n")
            IN /\ Len(content) < 1000 => excerpt = content
               /\ Len(content) > 1000 => excerpt = SubSeq(content, 1, 1000) \o <<"...">>

\* the number of lines that begin with prefix
LinesBeginning(lines, prefix) ==
    Cardinality({i \in DOMAIN lines : Len(lines[i]) > 0 /\ lines[i][1] = prefix})

\* C7: in the batch summary, for each input file with a summary.txt the counts
\* are the numbers of lines beginning with PASS, WARN and FAIL, and the glyph
\* is fail when the fail count is positive, warn when the warn count is
\* positive and the fail count is zero, pass otherwise; the summary text shows
\* that glyph and those counts for the file.
C7_BatchCountsAndGlyph ==
    \A c \in CallIds :
        (IsBasic(c, <<"fastqc_batch">>) /\ calls[c].pc = "done"
         /\ calls[c].result.kind = "text") =>
            \A i \in DOMAIN calls[c].rows :
                LET row == calls[c].rows[i]
                    p == LinesBeginning(row.lines, "PASS")
                    w == LinesBeginning(row.lines, "WARN")
                    f == LinesBeginning(row.lines, "FAIL")
                    glyph == IF f > 0 THEN GlyphFail
                             ELSE IF w > 0 THEN GlyphWarn
                             ELSE GlyphPass
                IN row.has_results =>
                    /\ row.pass = p /\ row.warn = w /\ row.fail = f
                    /\ row.glyph = glyph
                    /\ Contains(calls[c].result.text,
                           <<"  ", glyph, " ">> \o row.file \o <<": ">> \o IntStr(p)
                           \o <<"P/">> \o IntStr(w) \o <<"W/">> \o IntStr(f) \o <<"F\n">>)

C7_Witness ==
    \E c \in CallIds :
        /\ IsBasic(c, <<"fastqc_batch">>) /\ calls[c].pc = "done"
        /\ calls[c].result.kind = "text"
        /\ \E i \in DOMAIN calls[c].rows :
             /\ calls[c].rows[i].has_results
             /\ calls[c].rows[i].warn > 0 /\ calls[c].rows[i].fail > 0
             /\ calls[c].rows[i].glyph = GlyphFail

QueueControlKeys == {"priority", "tags", "notification_email"}

\* C8: every job an <op>_async call submitted has as parameters the supplied
\* arguments without priority, tags and notification_email, every other
\* argument unchanged, the supplied priority (5 when absent) and the supplied
\* tags (none when absent); a call that reports the submission has submitted.
C8_AsyncStripsQueueKeys ==
    /\ \A i \in 1..Len(queue) :
         LET job == queue[i]
             args == calls[job.by].args
         IN /\ IsQueue(job.by) /\ QueueRoute(calls[job.by].name) = "submit"
            /\ DOMAIN job.parameters = (DOMAIN args) \ QueueControlKeys
            /\ \A k \in DOMAIN job.parameters : job.parameters[k] = args[k]
            /\ job.priority = (IF "priority" \in DOMAIN args THEN args["priority"] ELSE 5)
            /\ job.tags = (IF "tags" \in DOMAIN args THEN args["tags"] ELSE <<>>)
            /\ job.job_type = calls[job.by].name[1]
    /\ \A c \in CallIds :
         (/\ IsQueue(c) /\ calls[c].pc = "done" /\ QueueRoute(calls[c].name) = "submit"
          /\ calls[c].result.kind = "text") =>
             \E i \in 1..Len(queue) : queue[i].by = c

C8_Witness ==
    \E i \in 1..Len(queue) :
        /\ "notification_email" \in DOMAIN calls[queue[i].by].args
        /\ "tags" \in DOMAIN calls[queue[i].by].args
        /\ "threads" \in DOMAIN queue[i].parameters
        /\ queue[i].priority = 5

JobOps == {<<"get_job_status">>, <<"get_job_result">>, <<"cancel_job">>}

\* C9: when the queue layer raises for cancel_job, get_job_status or
\* get_job_result, the operation returns error content whose text is the
\* raised error's text, and nothing is raised past the operation; cancel_job
\* reports success only when the queue layer did not raise.
C9_QueueErrorsSurfaceVerbatim ==
    \A c \in CallIds :
        (IsQueue(c) /\ calls[c].pc = "done" /\ calls[c].name \in JobOps) =>
            /\ calls[c].qerr.raised =>
                   /\ calls[c].result.kind = "error"
                   /\ calls[c].result.text = calls[c].qerr.text
            /\ (/\ calls[c].name = <<"cancel_job">>
                /\ calls[c].result.kind = "text") =>
                   /\ ~calls[c].qerr.raised
                   /\ calls[c].result.text = CancelledText(calls[c].args["job_id"])

C9_Witness ==
    \E c \in CallIds :
        /\ IsQueue(c) /\ calls[c].pc = "done" /\ calls[c].name = <<"cancel_job">>
        /\ calls[c].qerr.raised
        /\ calls[c].qerr.text = NotFoundStr(calls[c].args["job_id"])
        /\ calls[c].result.kind = "error"

\* C10: on the queue-backed server call_tool returns text content or error
\* content for every operation name.
C10_EveryNameYieldsContent ==
    \A c \in CallIds :
        (IsQueue(c) /\ calls[c].pc = "done") => calls[c].result.kind \in {"text", "error"}


\* C11: on the queue-backed server a name that is neither an _async name nor
\* one of the four job-management names gives what the basic server gives:
\* content (never an exception or no result), and for a name the basic server
\* does not know the error 'Unknown tool: <name>'.
C11_DelegationMatchesBasic ==
    \A c \in CallIds :
        (IsQueue(c) /\ calls[c].pc = "done" /\ QueueRoute(calls[c].name) = "delegate") =>
            /\ calls[c].result.kind \in {"text", "error"}
            /\ calls[c].name \notin BasicOps =>
                   calls[c].result = ErrorContent(<<"Unknown tool: ">> \o calls[c].name)


\* path lies inside the directory dir
Inside(path, dir) ==
    /\ Len(path) > Len(dir) + 1
    /\ SubSeq(path, 1, Len(dir)) = dir
    /\ path[Len(dir) + 1] = "/"

\* the input path a tool command ends with
InputOfCmd(cmd) == cmd[Len(cmd)]

\* C12: in the enhanced server, when the subprocess of fastqc or multiqc has
\* been started, the input was copied into the operation's temporary
\* directory beforehand and the path the tool is given is that staged copy
\* inside the directory.
C12_InputStagedBeforeRun ==
    \A c \in CallIds :
        (IsEnhanced(c) /\ procs[c].state # "none") =>
            /\ InputOfCmd(procs[c].cmd) \in calls[c].staged
            /\ Inside(InputOfCmd(procs[c].cmd), TmpPath(calls[c].tmpdir))


\* the cached ToolInfo of the tool an enhanced call runs
InfoOf(c) == IF calls[c].name = <<"fastqc">> THEN fastqc_info ELSE multiqc_info

\* call c is a fastqc or multiqc call of the enhanced server that has resolved
\* its tool (it is past the creation of its temporary directory)
EnhResolved(c) ==
    /\ IsEnhanced(c) /\ calls[c].name \in {<<"fastqc">>, <<"multiqc">>}
    /\ calls[c].tmpdir # 0

\* C13: in the enhanced server, a fastqc or multiqc call whose resolved
\* ToolInfo has mode 'unavailable' returns error content saying the tool is
\* not available in any execution mode, builds no command and spawns no
\* subprocess.
C13_UnavailableToolIsAnError ==
    \A c \in CallIds :
        (EnhResolved(c) /\ InfoOf(c).mode = "unavailable") =>
            /\ calls[c].pc = "done"
            /\ calls[c].result.kind = "error"
            /\ Contains(calls[c].result.text, UnavailableStr(calls[c].name[1]))
            /\ procs[c].state = "none"
            /\ procs[c].cmd = <<>>

C13_Witness ==
    \E c, e \in CallIds :
        /\ c # e
        /\ IsEnhanced(e) /\ calls[e].name = <<"fastqc_info">> /\ calls[e].pc = "done"
        /\ EnhResolved(c) /\ calls[c].name = <<"multiqc">>
        /\ multiqc_info.mode = "unavailable" /\ fastqc_info.mode # "unavailable"
        /\ calls[c].pc = "done"


Tools == {"fastqc", "multiqc"}

\* the cached ToolInfo of a tool
Cached(t) == IF t = "fastqc" THEN fastqc_info ELSE multiqc_info

\* C14: in the enhanced server, across every interleaving of fastqc, multiqc
\* and fastqc_info calls on one server, detection runs at most once for each
\* tool, and a cached ToolInfo that is set is never changed afterwards,
\* whatever it holds and however later operations end.
C14_DetectedOncePerTool ==
    /\ [](\A t \in Tools : detect_runs[t] <= 1)
    /\ [][ /\ fastqc_info # NoInfo => fastqc_info' = fastqc_info
           /\ multiqc_info # NoInfo => multiqc_info' = multiqc_info ]_vars

C14_Witness ==
    \E c, e \in CallIds :
        /\ IsEnhanced(c) /\ calls[c].name = <<"fastqc">> /\ TimedOutCall(c)
        /\ IsEnhanced(e) /\ calls[e].name = <<"fastqc_info">> /\ calls[e].pc = "done"
        /\ fastqc_info.mode \notin {"unset", "unavailable"}
        /\ multiqc_info.mode = "unavailable"
        /\ \A t \in Tools : detect_runs[t] = 1


\* C15: in the enhanced server, whenever the execution_mode setting is set,
\* a resolved tool has either that mode or, when that mode cannot be used
\* (also when the setting names no supported mode), the mode 'unavailable':
\* the preferred_modes list is never probed.
C15_ForcedModeOnly ==
    settings.execution_mode # "none" =>
        \A t \in Tools :
            Cached(t) # NoInfo =>
                Cached(t).mode \in {Lower(settings.execution_mode), "unavailable"}


\* the parameter the operation of call c requires ("" when it requires none)
RequiredKey(c) ==
    LET name == calls[c].name
        base == IF EndsWithAsync(name) THEN BaseNameOf(name) ELSE name
    IN IF IsQueue(c) /\ name \in JobOps THEN "job_id"
       ELSE IF base \in {<<"fastqc_single">>, <<"fastqc">>} THEN "input_file"
       ELSE IF base \in {<<"fastqc_batch">>, <<"multiqc_report">>, <<"multiqc">>}
       THEN "input_dir"
       ELSE ""

\* call c was made without the parameter its operation requires
OmitsRequired(c) ==
    /\ calls[c].pc # "idle"
    /\ (IsQueue(c) => QueueRoute(calls[c].name) # "delegate")
    /\ RequiredKey(c) # ""
    /\ ~Has(calls[c].args, RequiredKey(c))

\* C16: on every server variant, a call that omits the required parameter of
\* its operation (input_file, input_dir, or job_id for the job operations)
\* returns error content, raises nothing past the operation, and starts no
\* subprocess and no queue request.
C16_MissingParameterIsAnError ==
    \A c \in CallIds :
        OmitsRequired(c) =>
            /\ calls[c].pc = "done"
            /\ calls[c].result.kind = "error"
            /\ procs[c].state = "none"
            /\ \A i \in 1..Len(queue) : queue[i].by # c


\* call c is a fastqc_info call of the enhanced server
IsToolInfoCall(c) == IsEnhanced(c) /\ calls[c].name = <<"fastqc_info">>

\* the step in which call c runs the fastqc_info operation
ToolInfoStep(c) == calls[c].pc = "idle" /\ IsToolInfoCall(c)'

\* C17: the fastqc_info operation of the enhanced server spawns no
\* subprocess and makes no temporary directory or file; it leaves the
\* settings, the directories, the subprocesses, the queue and the other calls
\* as they were and changes a cached ToolInfo only when it was unset; once it
\* has returned, both cached fields are set.
C17_ToolInfoHasNoSideEffects ==
    /\ [](\A c \in CallIds :
            IsToolInfoCall(c) =>
                /\ calls[c].pc = "done" /\ calls[c].result.kind = "text"
                /\ procs[c].state = "none"
                /\ calls[c].tmpdir = 0 /\ calls[c].staged = {}
                /\ fastqc_info # NoInfo /\ multiqc_info # NoInfo)
    /\ [][\A c \in CallIds :
            ToolInfoStep(c) =>
                /\ UNCHANGED <<settings, dirs, procs, queue>>
                /\ \A e \in CallIds \ {c} : calls'[e] = calls[e]
                /\ fastqc_info # NoInfo => fastqc_info' = fastqc_info
                /\ multiqc_info # NoInfo => multiqc_info' = multiqc_info]_vars

C17_Witness ==
    \E c, e \in CallIds :
        /\ IsToolInfoCall(c) /\ calls[c].pc = "done"
        /\ EnhResolved(e) /\ calls[e].name = <<"fastqc">> /\ calls[e].pc = "waiting"
        /\ dirs = {calls[e].tmpdir}
        /\ fastqc_info.mode = "lmod"
        /\ Contains(calls[c].result.text, <<"\"execution_mode\": ", "lmod">>)


\* the operation of call c is in flight: suspended at its subprocess wait
InFlight(c) == calls[c].pc = "waiting"

\* C18: operations in flight at the same time on one server use different
\* temporary directories; the directory of an in-flight operation exists
\* whatever the other operations have done (none of them, completing or
\* failing, deleted it), and what an operation staged lies in its own
\* directory and in no other in-flight operation's.
C18_InFlightDirectoriesAreDisjoint ==
    \A c \in CallIds :
        InFlight(c) =>
            /\ calls[c].tmpdir \in dirs
            /\ \A p \in calls[c].staged : Inside(p, TmpPath(calls[c].tmpdir))
            /\ \A e \in CallIds \ {c} :
                 InFlight(e) =>
                     /\ calls[e].tmpdir # calls[c].tmpdir
                     /\ \A p \in calls[c].staged : ~Inside(p, TmpPath(calls[e].tmpdir))

C18_Witness ==
    \E c, e \in CallIds :
        /\ InFlight(c) /\ InFlight(e) /\ c # e
        /\ calls[c].server = "basic" /\ calls[c].name = <<"fastqc_batch">>
        /\ IsEnhanced(e) /\ calls[e].staged # {}
        /\ calls[c].elapsed > 0 /\ calls[e].elapsed > 0
        /\ dirs = {calls[c].tmpdir, calls[e].tmpdir}


\* C19: every synchronous tool operation of the basic and the enhanced
\* server that waits on its subprocess eventually returns text or error
\* content, even when the subprocess never exits on its own: the wait is
\* bounded by settings.timeout.
C19_EveryOperationReturns ==
    \A c \in CallIds :
        InFlight(c) ~> (calls[c].pc = "done" /\ calls[c].result.kind \in {"text", "error"})

C19_Witness ==
    \E c \in CallIds :
        /\ TimedOutCall(c) /\ settings.timeout = MaxTimeout
        /\ procs[c].state \in {"killed", "running"}
        /\ calls[c].name \in {<<"multiqc_report">>, <<"multiqc">>}
        /\ calls[c].result.kind = "error"


\* C20: in the enhanced server a resolved command runs through a shell
\* exactly when the ToolInfo mode is 'module' or 'lmod'; in the modes
\* 'native', 'singularity' and 'docker' it runs as a direct process
\* invocation; either way the working directory of the subprocess is the
\* operation's temporary directory.
C20_ShellOnlyForModules ==
    \A c \in CallIds :
        (IsEnhanced(c) /\ procs[c].state # "none") =>
            /\ InfoOf(c).mode \in {"native", "module", "lmod", "singularity", "docker"}
            /\ procs[c].shell <=> InfoOf(c).mode \in {"module", "lmod"}
            /\ procs[c].cwd = TmpPath(calls[c].tmpdir)

C20_Witness ==
    \E c \in CallIds :
        /\ IsEnhanced(c) /\ procs[c].state = "exited"
        /\ InfoOf(c).mode = "lmod" /\ procs[c].shell
        /\ procs[c].cwd = TmpPath(calls[c].tmpdir)
        /\ procs[c].cmd[1] = <<"module">>


\* the sum of the counts named field that the summary shows, over the files
\* that have results
RECURSIVE ShownSum(_, _)
ShownSum(rows, field) ==
    IF rows = <<>> THEN 0
    ELSE (IF rows[1].has_results THEN rows[1][field] ELSE 0)
         + ShownSum(SubSeq(rows, 2, Len(rows)), field)

\* a fastqc_batch call of the basic server has returned after a run that exited 0
BatchSummarized(c) ==
    /\ IsBasic(c, <<"fastqc_batch">>) /\ calls[c].pc = "done"
    /\ procs[c].state = "exited" /\ procs[c].rc = 0

\* C21: in the batch summary the totals of PASS, WARN and FAIL are the sums of
\* the per-file counts shown for the files that have results; a file without a
\* matching output subdirectory or without summary.txt is listed as
\* 'No results found', adds nothing to any total, and the operation still
\* returns its summary as ordinary content.
C21_TotalsAreSumsOfShownCounts ==
    \A c \in CallIds :
        BatchSummarized(c) =>
            LET rows == calls[c].rows
                text == calls[c].result.text
                TotalLine(label, field, end) ==
                    <<label>> \o IntStr(ShownSum(rows, field)) \o <<end>>
            IN
            /\ calls[c].result.kind = "text"
            /\ Len(rows) = Len(calls[c].files)
            /\ Contains(text, TotalLine("  * Total PASS: ", "pass", "\n"))
            /\ Contains(text, TotalLine("  * Total WARN: ", "warn", "\n"))
            /\ Contains(text, TotalLine("  * Total FAIL: ", "fail", "\n\n"))
            /\ \A i \in DOMAIN rows :
                 ~rows[i].has_results =>
                    /\ Contains(text, <<"  ", GlyphNone, " ">> \o rows[i].file
                                      \o <<": No results found\n">>)

C21_Witness ==
    \E c \in CallIds :
        /\ BatchSummarized(c)
        /\ \E i, j \in DOMAIN calls[c].rows :
             /\ ~calls[c].rows[i].has_results
             /\ calls[c].rows[j].has_results
             /\ calls[c].rows[j].pass > 0 /\ calls[c].rows[j].fail > 0


\* the labels after which a result of the basic server prints a path
PathLabels ==
    {"  * HTML Report: ", "  * Data File: ", "  * Summary: ",
     "Output directory: ", "Report: ", "Data directory: "}

\* the tokens of text before its first line end
RECURSIVE UpToLineEnd(_)
UpToLineEnd(text) ==
    IF text = <<>> \/ Head(text) \in {"\n", "\n\n"} THEN <<>>
    ELSE <<Head(text)>> \o UpToLineEnd(Tail(text))

\* the paths the text prints after the labels
ReportedPaths(text) ==
    {UpToLineEnd(After(text, l)) : l \in {m \in PathLabels : Contains(text, <<m>>)}}

\* a basic operation has returned after a run that exited 0
BasicSucceeded(c) ==
    /\ calls[c].server = "basic" /\ calls[c].name \in BasicOps
    /\ calls[c].pc = "done"
    /\ procs[c].state = "exited" /\ procs[c].rc = 0

\* C22: in the basic server, every path a successful fastqc_single,
\* fastqc_batch or multiqc_report result prints (HTML report, data file,
\* summary file, output or data directory) lies inside the operation's
\* temporary directory, and that directory no longer exists when the result
\* is returned, so no printed path exists when the caller receives the result.
C22_ReportedPathsAreGone ==
    \A c \in CallIds :
        BasicSucceeded(c) =>
            /\ calls[c].result.kind = "text"
            /\ calls[c].tmpdir # 0
            /\ calls[c].tmpdir \notin dirs
            /\ \A p \in ReportedPaths(calls[c].result.text) :
                 Inside(p, TmpPath(calls[c].tmpdir))

C22_Witness ==
    \E c \in CallIds :
        /\ BasicSucceeded(c) /\ calls[c].name = <<"fastqc_single">>
        /\ Cardinality(ReportedPaths(calls[c].result.text)) = 3
        /\ calls[c].tmpdir \notin dirs


\* the entry (a piece of the setting between two commas) is the mode name m
\* once trimmed and lower-cased: blanks, one word that lower-cases to m, blanks
EntryNames(entry, m) ==
    \E i \in DOMAIN entry :
        /\ Lower(entry[i]) = m
        /\ \A k \in DOMAIN entry \ {i} : entry[k] = " "

\* C23: when the enhanced server has resolved a tool, the preferred list it
\* handed the detector holds, in the order of the comma-separated entries of
\* the preferred_modes setting, the trimmed and lower-cased entries that are
\* execution modes and nothing else; when no entry is an execution mode the
\* detector was handed no list at all, not an empty list.
C23_PreferredModesParsed ==
    \A t \in Tools :
        detect_runs[t] > 0 =>
            LET entries == SplitComma(settings.preferred_modes)
                valid == {i \in DOMAIN entries :
                             \E m \in ExecutionModes : EntryNames(entries[i], m)}
                handed == detect_given[t]
            IN
            IF valid = {} THEN handed = NotGiven
            ELSE /\ handed.given
                 /\ Len(handed.modes) = Cardinality(valid)
                 /\ \E at \in [DOMAIN handed.modes -> valid] :
                      /\ \A j, k \in DOMAIN at : j < k => at[j] < at[k]
                      /\ \A k \in DOMAIN at : EntryNames(entries[at[k]], handed.modes[k])

C23_Witness ==
    \E t \in Tools :
        /\ detect_runs[t] > 0
        /\ settings.preferred_modes = <<" ", "LMOD", ",", "native">>
        /\ detect_given[t] = Given(<<"lmod", "native">>)
        /\ Cached(t).mode = "lmod"

====
